---- MODULE Spec2Model ----
(***************************************************************************)
(* wnram: an in-RAM WordNet database.  New reads the data files line by     *)
(* line, builds the synset graph in a table keyed by (offset, part of       *)
(* speech), indexes it by normalized word and returns a read-only Handle    *)
(* that answers Lookup, Iterate and Related.                                *)
(*                                                                          *)
(* Strings are sequences of one-character strings.  A pointer to a cluster  *)
(* is the key under which byOffset holds it (the table maps distinct keys   *)
(* to distinct clusters, and nothing else allocates clusters).              *)
(***************************************************************************)
EXTENDS Integers, Sequences, FiniteSets, TLC

\* ---------------------------------------------------------------- bounds
MaxLines == 2     \* lines read over the whole load
MaxPtrs  == 1     \* pointers on one data line

\* ------------------------------------------------------ program constants
Noun      == 0
Verb      == 1
Adjective == 2
Adverb    == 3

Antonym  == 2        \* 1 << 1
Hypernym == 8192     \* 1 << 13

Byte == 256          \* uint8 arithmetic is modulo 2^8

\* ---------------------------------------------------------------- strings
NoKey == [index |-> "", pos |-> Noun]

IsSpace(c) == c = " "

ToLowerChar(c) == IF c = "A" THEN "a" ELSE IF c = "B" THEN "b" ELSE c

ToLower(s) == [i \in 1..Len(s) |-> ToLowerChar(s[i])]

\* strings.Fields: the maximal runs of non-space characters, in order.
RECURSIVE FieldsFrom(_, _, _)
FieldsFrom(s, i, cur) ==
    IF i > Len(s)
    THEN IF cur = <<>> THEN <<>> ELSE <<cur>>
    ELSE IF IsSpace(s[i])
         THEN (IF cur = <<>> THEN <<>> ELSE <<cur>>) \o FieldsFrom(s, i + 1, <<>>)
         ELSE FieldsFrom(s, i + 1, Append(cur, s[i]))

Fields(s) == FieldsFrom(s, 1, <<>>)

\* strings.Join(fs, " ")
RECURSIVE Join(_)
Join(fs) ==
    IF fs = <<>> THEN <<>>
    ELSE IF Len(fs) = 1 THEN fs[1]
    ELSE fs[1] \o <<" ">> \o Join(Tail(fs))

\* Variant: the key keeps its letter case.
normalizeKeepsCase(in) == Join(Fields(in))

normalize(in) == ToLower(Join(Fields(in)))

\* ------------------------------------------------------------------ lexer
\* lexWord: a run of non-space characters, with '_' rendered as ' '.
lexWord(tok) == [i \in 1..Len(tok) |-> IF tok[i] = "_" THEN " " ELSE tok[i]]

PosCodesKnown == {"n", "v", "a", "s", "r"}

lexPOS(c) ==
    CASE c = "n" -> Noun
      [] c = "v" -> Verb
      [] c = "a" -> Adjective
      [] c = "s" -> Adjective
      [] c = "r" -> Adverb

RelSymbolsKnown == {"!", "@"}

lexRelationType(sym) ==
    CASE sym = "!" -> Antonym
      [] sym = "@" -> Hypernym

\* ----------------------------------------------------------- input lines
\* A data line, field by field.  kind "entry" is a line that starts with an
\* 8-digit offset; "number" is a line holding only the decimal number n;
\* "junk" is any other non-empty text; "empty" has no bytes.
KeyCodes  == { <<"00000001", "n">>, <<"00000001", "a">> }
WordLists == { <<>>,
               << <<"A">> >>,
               << <<"a">>, <<"A">> >>,
               << <<"a", "_", "b">> >> }
Natures   == {0, 257, 513, 1, 65793, 258}
    \* 0x0000 semantic, 0x0101, 0x0201, 0x0001 (high byte zero),
    \* 0x10101 (above 0xFFFF), 0x0102

Pointers ==
    { [sym |-> "@", offset |-> k[1], pos |-> k[2], nature |-> 0] : k \in KeyCodes }
    \cup
    { [sym |-> "!", offset |-> k[1], pos |-> k[2], nature |-> n] :
          k \in KeyCodes, n \in Natures \ {0} }

RECURSIVE SeqsUpTo(_, _)
SeqsUpTo(S, n) ==
    IF n = 0 THEN { <<>> }
    ELSE LET shorter == SeqsUpTo(S, n - 1)
         IN  shorter \cup { Append(q, x) : q \in shorter, x \in S }

EmptyLine == [kind |-> "empty", n |-> 0, offset |-> "", pos |-> "",
              words |-> <<>>, ptrs |-> <<>>, gloss |-> ""]

Lines ==
    { [kind |-> "entry", n |-> 0, offset |-> k[1], pos |-> k[2], words |-> ws,
       ptrs |-> ps, gloss |-> "g"] :
          k \in KeyCodes, ws \in WordLists, ps \in SeqsUpTo(Pointers, MaxPtrs) }
    \cup { [EmptyLine EXCEPT !.kind = "number", !.n = k] : k \in 1..MaxLines }
    \cup { [EmptyLine EXCEPT !.kind = "junk"], EmptyLine }

\* What a read that fails part-way has in the buffer: nothing, a truncated
\* record, a number, or a whole record whose newline never arrived.
Partials ==
    { d \in Lines : d.kind # "entry" }
    \cup { d \in Lines : d.kind = "entry" /\ d.offset = "00000001" /\ d.pos = "n"
                          /\ d.words = << <<"A">> >> /\ d.ptrs = <<>> }

\* ----------------------------------------------------------------- parser
NoParse == [err |-> FALSE, nil |-> TRUE, byteOffset |-> "", pos |-> Noun,
            words |-> <<>>, gloss |-> "", rels |-> <<>>]

ParseError == [NoParse EXCEPT !.err = TRUE]

\* uint8(x) - 1, in uint8 arithmetic
Uint8Minus1(x) == ((x % Byte) + Byte - 1) % Byte

\* The pointer's nature field decoded into a parsedRel.
parsedRel(ptr) ==
    [ rel        |-> lexRelationType(ptr.sym),
      pos        |-> lexPOS(ptr.pos),
      offset     |-> ptr.offset,
      isSemantic |-> (ptr.nature = 0),
      source     |-> IF ptr.nature = 0 THEN 0 ELSE Uint8Minus1(ptr.nature \div Byte),
      dest       |-> IF ptr.nature = 0 THEN 0 ELSE Uint8Minus1(ptr.nature % Byte) ]

parseLine(data, line) ==
    IF data.kind = "number"
    THEN IF data.n = line THEN NoParse ELSE ParseError
    ELSE IF data.kind # "entry" THEN ParseError
    ELSE IF data.pos \notin PosCodesKnown THEN ParseError
    ELSE IF \E i \in 1..Len(data.ptrs) :
                \/ data.ptrs[i].sym \notin RelSymbolsKnown
                \/ data.ptrs[i].pos \notin PosCodesKnown
         THEN ParseError
    ELSE [ err        |-> FALSE,
           nil        |-> FALSE,
           byteOffset |-> data.offset,
           pos        |-> lexPOS(data.pos),
           words      |-> [i \in 1..Len(data.words) |->
                              [word |-> lexWord(data.words[i]), relations |-> <<>>]],
           gloss      |-> data.gloss,
           rels       |-> [i \in 1..Len(data.ptrs) |-> parsedRel(data.ptrs[i])] ]

\* ---------------------------------------------------------- graph builder
\* &cluster{}
EmptyCluster == [pos |-> Noun, words |-> <<>>, gloss |-> "", relations |-> <<>>,
                 debug |-> ""]

ix(index, pos) == [index |-> index, pos |-> pos]

\* c, ok := byOffset[index]; if !ok { c = &cluster{}; byOffset[index] = c }
Resolve(tbl, k) == IF k \in DOMAIN tbl THEN tbl ELSE tbl @@ (k :> EmptyCluster)

Created(tbl, order, k) == IF k \in DOMAIN tbl THEN order ELSE Append(order, k)

\* Variant: the range test on the source word is off by one.
BogusSourceOffByOne(source, nwords) == source > nwords

\* if int(r.source) >= len(c.words)
BogusSource(source, nwords) == source >= nwords

\* c.words[r.source].relations = append(..., syntacticRelation{...})
AttachSyntactic(c, r, target) ==
    [c EXCEPT !.words[r.source + 1].relations =
                  Append(@, [rel |-> r.rel, target |-> target, wordNumber |-> r.dest])]

\* c.relations = append(c.relations, semanticRelation{...})
AttachSemantic(c, r, target) ==
    [c EXCEPT !.relations = Append(@, [rel |-> r.rel, target |-> target])]

\* for _, r := range p.rels { ... }, from the i-th relation on.
\* out: "ok", "bogus" (the error return) or "panic" (index out of range).
RECURSIVE BuildRels(_, _, _, _, _)
BuildRels(tbl, order, key, rels, i) ==
    IF i > Len(rels) THEN [out |-> "ok", tbl |-> tbl, order |-> order]
    ELSE LET r      == rels[i]
             rindex == ix(r.offset, r.pos)
             t1     == Resolve(tbl, rindex)
             o1     == Created(tbl, order, rindex)
         IN  IF r.isSemantic
             THEN BuildRels([t1 EXCEPT ![key] = AttachSemantic(@, r, rindex)],
                            o1, key, rels, i + 1)
             ELSE IF BogusSource(r.source, Len(t1[key].words))
                  THEN [out |-> "bogus", tbl |-> t1, order |-> o1]
                  ELSE IF r.source + 1 \notin DOMAIN t1[key].words
                       THEN [out |-> "panic", tbl |-> t1, order |-> o1]
                       ELSE BuildRels([t1 EXCEPT ![key] = AttachSyntactic(@, r, rindex)],
                                      o1, key, rels, i + 1)

\* Variant: an entry fills its cluster only when it is the one that creates it.
CallbackFillsNewOnly(tbl, order, data, line) ==
    LET p == parseLine(data, line)
    IN  IF p.err THEN [out |-> "format", tbl |-> tbl, order |-> order]
        ELSE IF p.nil THEN [out |-> "ok", tbl |-> tbl, order |-> order]
        ELSE LET index == ix(p.byteOffset, p.pos)
                 t1    == Resolve(tbl, index)
                 o1    == Created(tbl, order, index)
                 t2    == IF index \in DOMAIN tbl THEN t1
                          ELSE [t1 EXCEPT ![index] =
                                   [@ EXCEPT !.pos = p.pos, !.words = p.words,
                                             !.gloss = p.gloss, !.debug = p.byteOffset]]
             IN  BuildRels(t2, o1, index, p.rels, 1)

\* The per-line callback New hands to inPlaceReadLineFromPath.
\* out: "ok", "format" (parseLine failed), "bogus" or "panic".
Callback(tbl, order, data, line) ==
    LET p == parseLine(data, line)
    IN  IF p.err THEN [out |-> "format", tbl |-> tbl, order |-> order]
        ELSE IF p.nil THEN [out |-> "ok", tbl |-> tbl, order |-> order]
        ELSE LET index == ix(p.byteOffset, p.pos)
                 t1    == Resolve(tbl, index)
                 o1    == Created(tbl, order, index)
                 t2    == [t1 EXCEPT ![index] =
                              [@ EXCEPT !.pos = p.pos, !.words = p.words,
                                        !.gloss = p.gloss, !.debug = p.byteOffset]]
             IN  BuildRels(t2, o1, index, p.rels, 1)

\* ------------------------------------------------------------ the handle
NoHandle == [nil |-> TRUE, db |-> <<>>, index |-> <<>>]

\* Variant: the post-pass check on empty clusters is left out.
WithoutWordsUnchecked(c) == FALSE

\* if len(c.words) == 0 { return nil, error }
WithoutWords(c) == Len(c.words) = 0

\* v, _ := h.index[key]; v = append(v, c); h.index[key] = v
IndexAdd(index, key, c) ==
    IF key \in DOMAIN index
    THEN [index EXCEPT ![key] = Append(@, c)]
    ELSE index @@ (key :> <<c>>)

\* for _, w := range c.words { ... }, from the i-th word on
RECURSIVE IndexWords(_, _, _, _)
IndexWords(index, heap, c, i) ==
    IF i > Len(heap[c].words) THEN index
    ELSE IndexWords(IndexAdd(index, normalize(heap[c].words[i].word), c), heap, c, i + 1)

\* for _, c := range byOffset { ... }, visiting the clusters in the order db
RECURSIVE BuildIndex(_, _, _, _)
BuildIndex(index, heap, db, i) ==
    IF i > Len(db) THEN index
    ELSE BuildIndex(IndexWords(index, heap, db[i], 1), heap, db, i + 1)

\* The orders in which ranging over a Go map can visit its keys.
MapOrders(S) ==
    { f \in [1..Cardinality(S) -> S] : \A i, j \in DOMAIN f : i # j => f[i] # f[j] }

\* ---------------------------------------------------------------- queries
RECURSIVE BitAnd(_, _)
BitAnd(a, b) ==
    IF a = 0 \/ b = 0 THEN 0
    ELSE (a % 2) * (b % 2) + 2 * BitAnd(a \div 2, b \div 2)

\* l.Contains(want), and the loop of Lookup over crit.POS
Contains(l, want) == \E i \in 1..Len(l) : l[i] = want

\* clusters, _ := h.index[searchStr]
Bucket(index, key) == IF key \in DOMAIN index THEN index[key] ELSE <<>>

\* Variant: the read leaves an empty bucket behind for a key it did not find.
IndexAfterReadInserts(index, key) ==
    IF key \in DOMAIN index THEN index ELSE index @@ (key :> <<>>)

\* What reading h.index[searchStr] leaves in the map: a Go map read inserts nothing.
IndexAfterRead(index, key) == index

\* if len(crit.POS) > 0 { ... if !satisfied { continue } }
Satisfied(POS, pos) == Len(POS) = 0 \/ Contains(POS, pos)

RECURSIVE Found(_, _, _, _, _)
Found(heap, clusters, crit, i, found) ==
    IF i > Len(clusters) THEN found
    ELSE Found(heap, clusters, crit, i + 1,
               IF Satisfied(crit.POS, heap[clusters[i]].pos)
               THEN Append(found, [word |-> crit.Matching, cluster |-> clusters[i]])
               ELSE found)

\* Variant: a text of white space only is refused as well.
LookupRefusesBlank(hd, heap, crit) ==
    IF normalize(crit.Matching) = <<>>
    THEN [err |-> TRUE, found |-> <<>>]
    ELSE [err |-> FALSE,
          found |-> Found(heap, Bucket(hd.index, normalize(crit.Matching)), crit, 1, <<>>)]

\* Handle.Lookup: err is the error return, found the result list.
Lookup(hd, heap, crit) ==
    IF crit.Matching = <<>>
    THEN [err |-> TRUE, found |-> <<>>]
    ELSE [err |-> FALSE,
          found |-> Found(heap, Bucket(hd.index, normalize(crit.Matching)), crit, 1, <<>>)]

\* A sequence of view-or-panic steps folded into Related's outcome: the first
\* out-of-range word index panics and nothing is returned.
RelatedResult(items) ==
    IF \E i \in 1..Len(items) : items[i].panic
    THEN [panic |-> TRUE, relationships |-> <<>>]
    ELSE [panic |-> FALSE,
          relationships |-> [i \in 1..Len(items) |-> items[i].view]]

\* Lookup{word: target.words[n].word, cluster: target}
ViewAt(heap, target, n) ==
    IF n + 1 \in DOMAIN heap[target].words
    THEN [panic |-> FALSE, view |-> [word |-> heap[target].words[n + 1].word, cluster |-> target]]
    ELSE [panic |-> TRUE, view |-> [word |-> <<>>, cluster |-> target]]

RECURSIVE SemanticItems(_, _, _, _)
SemanticItems(heap, rels, r, i) ==
    IF i > Len(rels) THEN <<>>
    ELSE (IF BitAnd(rels[i].rel, r) # 0
          THEN <<ViewAt(heap, rels[i].target, 0)>> ELSE <<>>)
         \o SemanticItems(heap, rels, r, i + 1)

RECURSIVE SyntacticOfWord(_, _, _, _)
SyntacticOfWord(heap, rels, r, i) ==
    IF i > Len(rels) THEN <<>>
    ELSE (IF BitAnd(rels[i].rel, r) # 0
          THEN <<ViewAt(heap, rels[i].target, rels[i].wordNumber)>> ELSE <<>>)
         \o SyntacticOfWord(heap, rels, r, i + 1)

\* if key == word.word
KeyMatches(key, word) == key = word.word

RECURSIVE SyntacticItems(_, _, _, _, _)
SyntacticItems(heap, words, key, r, i) ==
    IF i > Len(words) THEN <<>>
    ELSE (IF KeyMatches(key, words[i])
          THEN SyntacticOfWord(heap, words[i].relations, r, 1) ELSE <<>>)
         \o SyntacticItems(heap, words, key, r, i + 1)

\* Lookup.Related
Related(heap, w, r) ==
    RelatedResult(SemanticItems(heap, heap[w.cluster].relations, r, 1)
                  \o SyntacticItems(heap, heap[w.cluster].words, normalize(w.word), r, 1))

\* ------------------------------------------------------------ query inputs
Texts == { <<>>, <<" ">>, <<"a">>, <<" ", "A", " ">>, <<"a", " ", " ", "b">> }

PosLists == { <<>>, <<Noun>>, <<Verb, Adjective>> }

Masks == { Antonym, Hypernym, Antonym + Hypernym }

VisitorErrors == { "e1", "e2" }

NoView == [word |-> <<>>, cluster |-> NoKey]

NoRet == [op |-> "none", crit |-> [Matching |-> <<>>, POS |-> <<>>], from |-> "none",
          w |-> NoView, r |-> 0, err |-> FALSE, found |-> <<>>,
          panic |-> FALSE, relationships |-> <<>>]

\* visited: the views handed to the visitor; rets: what the visitor returned for each
NoIterate == [pc |-> "idle", pos |-> <<>>, i |-> 1, visited |-> <<>>, rets |-> <<>>,
              err |-> "nil"]

\* ------------------------------------------------------------------ state
VARIABLES
    pc,        \* New: "walk" while the walk runs, then "ready", "failed" or "panic"
    byOffset,  \* the clusters, by identity key (New's table; the handle's heap)
    created,   \* the keys of byOffset in the order they were inserted
    inFile,    \* inPlaceReadLine is running on a data file
    count,     \* inPlaceReadLine: 1-based number of the next line
    cnt,       \* lines handed to the callback so far
    h,         \* the Handle New returns (NoHandle when it returns nil)
    err,       \* New's error return: "nil" or the kind of error
    seen,      \* what the load ran into: "format", "bogus", "nowords", "ioerr"
    ret,       \* the last call of Lookup or Related since Iterate last moved, with what it returned
    it,        \* the activation of Iterate: position, views handed out, return
    orders,    \* two orders in which one set of entries is fed to the builder
    loads      \* the two runs of the builder, one per order

vars == <<pc, byOffset, created, inFile, count, cnt, h, err, seen, ret, it,
          orders, loads>>

Init ==
    /\ pc = "walk"
    /\ byOffset = <<>>
    /\ created = <<>>
    /\ inFile = FALSE
    /\ count = 1
    /\ cnt = 0
    /\ h = NoHandle
    /\ err = "nil"
    /\ seen = {}
    /\ ret = NoRet
    /\ it = NoIterate
    /\ orders = <<>>
    /\ loads = <<>>

\* --------------------------------------------------------------- the load
\* An entry with a syntactic pointer whose source index is outside its words.
HasBogusPointer(data, line) ==
    LET p == parseLine(data, line)
    IN  /\ ~p.err /\ ~p.nil
        /\ \E i \in 1..Len(p.rels) :
               ~p.rels[i].isSemantic /\ ~(p.rels[i].source < Len(p.words))

LineEvents(data, line) ==
    (IF parseLine(data, line).err THEN {"format"} ELSE {})
    \cup (IF HasBogusPointer(data, line) THEN {"bogus"} ELSE {})

\* New returns nil and an error; its locals are gone.
Fail(kind, events) ==
    /\ pc' = "failed"
    /\ err' = kind
    /\ h' = NoHandle
    /\ byOffset' = <<>>
    /\ created' = <<>>
    /\ inFile' = FALSE
    /\ count' = 1
    /\ seen' = seen \cup events
    /\ UNCHANGED <<orders, loads, cnt, ret, it>>

\* The process dies of an index out of range.
Panic(events) ==
    /\ pc' = "panic"
    /\ seen' = seen \cup events
    /\ UNCHANGED <<orders, loads, byOffset, created, inFile, count, cnt, h, err, ret, it>>

\* cb(data, count, offset) and what inPlaceReadLine does with its result;
\* last: the call is the one after the read loop, whose result is returned.
Deliver(data, last, events) ==
    LET res == Callback(byOffset, created, data, count)
    IN  IF res.out = "panic" THEN Panic(events \cup LineEvents(data, count))
        ELSE IF res.out # "ok" THEN Fail(res.out, events \cup LineEvents(data, count))
        ELSE /\ byOffset' = res.tbl
             /\ created' = res.order
             /\ count' = IF last THEN 1 ELSE count + 1
             /\ inFile' = ~last
             /\ cnt' = cnt + 1
             /\ seen' = seen \cup events \cup LineEvents(data, count)
             /\ UNCHANGED <<orders, loads, pc, h, err, ret, it>>

\* filepath.Walk reaches the next data file and opens it.
OpenFile ==
    /\ pc = "walk" /\ ~inFile
    /\ inFile' = TRUE
    /\ count' = 1
    /\ UNCHANGED <<orders, loads, pc, byOffset, created, cnt, h, err, seen, ret, it>>

\* The walk reports an error for a path, or os.Open fails.
WalkError ==
    /\ pc = "walk" /\ ~inFile
    /\ Fail("io", {"ioerr"})

\* reader.ReadSlice returns a whole line and no error.
ReadLine ==
    /\ pc = "walk" /\ inFile /\ cnt < MaxLines
    /\ \E data \in Lines : Deliver(data, FALSE, {})

\* reader.ReadSlice returns io.EOF with the rest of the file.
ReadEOF ==
    /\ pc = "walk" /\ inFile
    /\ \E data \in Lines :
          IF data.kind = "empty"
          THEN /\ inFile' = FALSE
               /\ count' = 1
               /\ UNCHANGED <<orders, loads, pc, byOffset, created, cnt, h, err, seen, ret, it>>
          ELSE cnt < MaxLines /\ Deliver(data, TRUE, {})

\* reader.ReadSlice returns another error with what it had read.
ReadError ==
    /\ pc = "walk" /\ inFile /\ cnt < MaxLines
    /\ \E data \in Partials : Deliver(data, TRUE, {"ioerr"})

\* The walk is over: New checks every cluster and builds the handle.
Finish ==
    /\ pc = "walk" /\ ~inFile
    /\ IF \E k \in DOMAIN byOffset : WithoutWords(byOffset[k])
       THEN Fail("nowords", {"nowords"})
       ELSE /\ \E db \in MapOrders(DOMAIN byOffset) :
                  h' = [nil |-> FALSE, db |-> db,
                        index |-> BuildIndex(<<>>, byOffset, db, 1)]
            /\ pc' = "ready"
            /\ err' = "nil"
            /\ UNCHANGED <<orders, loads, byOffset, created, inFile, count, cnt, seen, ret, it>>

\* ------------------------------------------------------------ the queries
\* A finished Iterate is out of scope once its caller makes the next call.
Forget(a) == IF a.pc = "done" THEN NoIterate ELSE a

\* h.Lookup(crit) and what it leaves behind
Call(crit) ==
    LET res == Lookup(h, byOffset, crit)
    IN  /\ ret' = [NoRet EXCEPT !.op = "Lookup", !.crit = crit,
                                !.err = res.err, !.found = res.found]
        /\ h' = IF crit.Matching = <<>> THEN h
                ELSE [h EXCEPT !.index = IndexAfterRead(@, normalize(crit.Matching))]
        /\ it' = Forget(it)
        /\ UNCHANGED <<orders, loads, pc, byOffset, created, inFile, count, cnt, err, seen>>

\* h.Lookup(crit), called while no Iterate is in progress
DoLookup ==
    /\ pc = "ready" /\ it.pc # "running"
    /\ \E text \in Texts, POS \in PosLists : Call([Matching |-> text, POS |-> POS])

\* h.Lookup(crit) on the word the visitor was handed, while Iterate is in progress
LookupInVisitor ==
    /\ pc = "ready" /\ it.pc = "running" /\ Len(it.visited) > 0
    /\ Call([Matching |-> it.visited[Len(it.visited)].word, POS |-> it.pos])

\* w.Related(r) on a view the last Lookup returned
RelatedOfLookup ==
    /\ pc = "ready" /\ ret.op = "Lookup"
    /\ \E n \in 1..Len(ret.found), r \in Masks :
          LET res == Related(byOffset, ret.found[n], r)
          IN  ret' = [NoRet EXCEPT !.op = "Related", !.from = "Lookup", !.w = ret.found[n],
                                 !.r = r, !.panic = res.panic,
                                 !.relationships = res.relationships]
    /\ it' = Forget(it)
    /\ UNCHANGED <<orders, loads, pc, byOffset, created, inFile, count, cnt, h, err, seen>>

\* w.Related(r) on the view the visitor was handed, while Iterate is in progress
RelatedOfIterate ==
    /\ pc = "ready" /\ it.pc = "running" /\ Len(it.visited) > 0
    /\ \E r \in Masks :
          LET w   == it.visited[Len(it.visited)]
              res == Related(byOffset, w, r)
          IN  ret' = [NoRet EXCEPT !.op = "Related", !.from = "Iterate", !.w = w,
                                   !.r = r, !.panic = res.panic,
                                   !.relationships = res.relationships]
    /\ UNCHANGED <<orders, loads, pc, byOffset, created, inFile, count, cnt, h, err, seen, it>>

\* h.Iterate(pos, cb) is called
IterateCall ==
    /\ pc = "ready" /\ it.pc # "running"
    /\ \E pos \in PosLists : it' = [NoIterate EXCEPT !.pc = "running", !.pos = pos]
    /\ ret' = NoRet
    /\ UNCHANGED <<orders, loads, pc, byOffset, created, inFile, count, cnt, h, err, seen>>

\* Variant: the filter is not applied.
SkippedNever(pos, c) == FALSE

\* if !pos.Empty() && !pos.Contains(c.pos) { continue }
Skipped(pos, c) == Len(pos) # 0 /\ ~Contains(pos, c.pos)

\* Variant: the visitor's error is dropped and the loop goes on.
AfterVisitGoesOn(a, view, e) ==
    [a EXCEPT !.visited = Append(@, view), !.rets = Append(@, e), !.i = @ + 1]

\* err := cb(view); if err != nil { return err }
AfterVisit(a, view, e) ==
    LET called == [a EXCEPT !.visited = Append(@, view), !.rets = Append(@, e)]
    IN  IF e # "nil"
        THEN [called EXCEPT !.pc = "done", !.err = e]
        ELSE [called EXCEPT !.i = @ + 1]

\* One turn of the loop over h.db; the visitor returns nil or an error.
IterateStep ==
    /\ pc = "ready" /\ it.pc = "running"
    /\ IF it.i > Len(h.db)
       THEN it' = [it EXCEPT !.pc = "done", !.err = "nil"]
       ELSE LET c == h.db[it.i]
            IN  IF Skipped(it.pos, byOffset[c])
                THEN it' = [it EXCEPT !.i = @ + 1]
                ELSE \E e \in {"nil"} \cup VisitorErrors :
                        it' = AfterVisit(it, [word |-> byOffset[c].words[1].word,
                                              cluster |-> c], e)
    /\ ret' = NoRet
    /\ UNCHANGED <<orders, loads, pc, byOffset, created, inFile, count, cnt, h, err, seen>>

Next ==
    \/ OpenFile
    \/ WalkError
    \/ ReadLine
    \/ ReadEOF
    \/ ReadError
    \/ Finish
    \/ DoLookup
    \/ LookupInVisitor
    \/ RelatedOfLookup
    \/ RelatedOfIterate
    \/ IterateCall
    \/ IterateStep

Spec == Init /\ [][Next]_vars

\* ------------------------------------------------- the builder, two orders
\* The entries of the data files: the lines parseLine turns into a parsed entry.
Entries == { d \in Lines : d.kind = "entry" }

\* The identity key the builder files a line's entry under.
EntryKey(d) == ix(d.offset, lexPOS(d.pos))

DistinctKeys(q) ==
    \A i \in 1..Len(q) : \A j \in 1..Len(q) : i # j => EntryKey(q[i]) # EntryKey(q[j])

\* The orders in which the entries of q can reach the callback.
Perms(q) ==
    { r \in [1..Len(q) -> { q[i] : i \in 1..Len(q) }] :
          \A i \in 1..Len(q) : \E j \in 1..Len(q) : r[j] = q[i] }

\* New's locals before the walk; held: the keys a pointer created before
\* their own entry arrived.
NewLoad == [out |-> "walk", tbl |-> <<>>, order |-> <<>>, i |-> 1, held |-> {}]

\* New returns nil and an error; its locals are gone.
FailedLoad(kind) == [out |-> kind, tbl |-> <<>>, order |-> <<>>, i |-> 1, held |-> {}]

InitOrder ==
    /\ pc = "walk"
    /\ byOffset = <<>>
    /\ created = <<>>
    /\ inFile = FALSE
    /\ count = 1
    /\ cnt = 0
    /\ h = NoHandle
    /\ err = "nil"
    /\ seen = {}
    /\ ret = NoRet
    /\ it = NoIterate
    /\ \E q \in SeqsUpTo(Entries, MaxLines) :
           /\ DistinctKeys(q)
           /\ \E r \in Perms(q) : orders = <<q, r>>
    /\ loads = <<NewLoad, NewLoad>>

\* Run n of the builder takes the next entry of its order.
FeedLine(n) ==
    /\ loads[n].out = "walk"
    /\ loads[n].i <= Len(orders[n])
    /\ LET ld   == loads[n]
           data == orders[n][ld.i]
           res  == Callback(ld.tbl, ld.order, data, ld.i)
       IN  loads' = [loads EXCEPT ![n] =
                        IF res.out # "ok" THEN FailedLoad(res.out)
                        ELSE [out |-> "walk", tbl |-> res.tbl, order |-> res.order,
                              i |-> ld.i + 1,
                              held |-> ld.held
                                       \cup ((DOMAIN res.tbl \ DOMAIN ld.tbl)
                                             \ {EntryKey(data)})]]
    /\ UNCHANGED <<pc, byOffset, created, inFile, count, cnt, h, err, seen, ret, it,
                   orders>>

\* Run n has read every entry: the pass over the table, and the return.
FinishLoad(n) ==
    /\ loads[n].out = "walk"
    /\ loads[n].i > Len(orders[n])
    /\ loads' = [loads EXCEPT ![n] =
                    IF \E k \in DOMAIN loads[n].tbl : WithoutWords(loads[n].tbl[k])
                    THEN FailedLoad("nowords")
                    ELSE [@ EXCEPT !.out = "ready"]]
    /\ UNCHANGED <<pc, byOffset, created, inFile, count, cnt, h, err, seen, ret, it,
                   orders>>

NextOrder ==
    \/ \E n \in 1..2 : FeedLine(n)
    \/ \E n \in 1..2 : FinishLoad(n)

SpecOrder == InitOrder /\ [][NextOrder]_vars

\* ================================================================ claims
\* Every cluster a handle can reach: its collection, its index buckets and the
\* targets of the relations of those.
RelationTargets(c) ==
    { c.relations[i].target : i \in 1..Len(c.relations) }
    \cup UNION { { c.words[j].relations[i].target : i \in 1..Len(c.words[j].relations) } :
                 j \in 1..Len(c.words) }

Collected == { h.db[i] : i \in 1..Len(h.db) }

Indexed == UNION { { h.index[key][i] : i \in 1..Len(h.index[key]) } : key \in DOMAIN h.index }

Reachable ==
    Collected \cup Indexed
    \cup UNION { RelationTargets(byOffset[k]) : k \in (Collected \cup Indexed) \cap DOMAIN byOffset }

\* C1: in every handle New returns, every node of the collection, of an index
\* bucket or at the far end of a relation exists, was defined by a line of its
\* own and has at least one member word; a load that leaves a node that was
\* only referenced does not return a handle.
C1_EveryNodeHasWords ==
    pc = "ready" =>
        /\ ~h.nil /\ err = "nil"
        /\ Collected = DOMAIN byOffset
        /\ \A k \in Reachable :
              /\ k \in DOMAIN byOffset
              /\ Len(byOffset[k].words) >= 1
              /\ byOffset[k].debug # ""

\* A handle in which a node points at another node, one that the load first
\* created as the far end of that pointer.
C1_Witness ==
    /\ pc = "ready"
    /\ Len(created) = 2
    /\ \E i \in 1..Len(byOffset[created[1]].relations) :
          byOffset[created[1]].relations[i].target = created[2]

\* C2: New returns either a handle and no error or an error and no handle, and
\* it returns an error whenever a line failed to parse, an integrity check
\* failed or a read of a data file failed part-way.
C2_AllOrNothing ==
    /\ pc = "ready" => (~h.nil /\ err = "nil")
    /\ pc = "failed" => (h.nil /\ err # "nil")
    /\ (pc # "walk" /\ seen # {}) => pc = "failed"

\* The member words of cluster c that the word of view w denotes.
Denoted(w, c) == { j \in 1..Len(c.words) : normalize(c.words[j].word) = normalize(w.word) }

\* The targets Related(r) is to return for view w.
RelatedTargets(w, r) ==
    LET c == byOffset[w.cluster]
    IN  { c.relations[i].target :
              i \in { n \in 1..Len(c.relations) : BitAnd(c.relations[n].rel, r) # 0 } }
        \cup UNION { { c.words[j].relations[i].target :
                         i \in { n \in 1..Len(c.words[j].relations) :
                                    BitAnd(c.words[j].relations[n].rel, r) # 0 } } :
                     j \in Denoted(w, c) }

Clusters(views) == [i \in 1..Len(views) |-> views[i].cluster]

ClusterSet(views) == { views[i].cluster : i \in 1..Len(views) }

\* C3: Related(m) on a view from Lookup or Iterate returns exactly the targets
\* of the semantic relations of its node whose kind meets m and of the
\* syntactic relations whose kind meets m on the member word the view's word
\* denotes, whatever the letter case of the stored word.
C3_RelatedExact ==
    (ret.op = "Related" /\ ~ret.panic) =>
        ClusterSet(ret.relationships) = RelatedTargets(ret.w, ret.r)

\* The nodes a Lookup of crit is to return.
Matches(crit) ==
    { k \in DOMAIN byOffset :
        /\ \E j \in 1..Len(byOffset[k].words) :
              normalize(byOffset[k].words[j].word) = normalize(crit.Matching)
        /\ (Len(crit.POS) = 0 \/ \E n \in 1..Len(crit.POS) : crit.POS[n] = byOffset[k].pos) }

\* C4: Lookup of a non-empty text returns one result for each node that has a
\* member word with the text's normalized form and a part of speech the filter
\* admits, no node twice and no other node, each result with the text as given.
C4_LookupExact ==
    (ret.op = "Lookup" /\ ret.crit.Matching # <<>>) =>
        /\ ~ret.err
        /\ ClusterSet(ret.found) = Matches(ret.crit)
        /\ \A i, j \in 1..Len(ret.found) :
              i # j => ret.found[i].cluster # ret.found[j].cluster
        /\ \A i \in 1..Len(ret.found) : ret.found[i].word = ret.crit.Matching

\* The words of a text, letter case aside.
FoldedWords(t) == [i \in 1..Len(Fields(t)) |-> ToLower(Fields(t)[i])]

\* The non-empty texts that differ from text only in letter case and in white
\* space around and between the words.
SameKey(text) == { t \in Texts : t # <<>> /\ FoldedWords(t) = FoldedWords(text) }

\* C5 as stated: two non-empty texts with one normalized form and one filter
\* get identical results from Lookup.
C5_IdenticalResults ==
    (ret.op = "Lookup" /\ ret.crit.Matching # <<>>) =>
        \A t \in SameKey(ret.crit.Matching) :
            Lookup(h, byOffset, [Matching |-> t, POS |-> ret.crit.POS]).found = ret.found

\* C5 as amended: two non-empty texts with one normalized form and one filter
\* get the same nodes in the same order from Lookup, each result carrying the
\* text of its own call.
C5_SameNodes ==
    (ret.op = "Lookup" /\ ret.crit.Matching # <<>>) =>
        \A t \in SameKey(ret.crit.Matching) :
            LET other == Lookup(h, byOffset, [Matching |-> t, POS |-> ret.crit.POS])
            IN  /\ other.err = ret.err
                /\ Clusters(other.found) = Clusters(ret.found)
                /\ \A i \in 1..Len(other.found) : other.found[i].word = t

\* A Lookup of " A " that found a node, which a Lookup of "a" is to find too.
C5_Witness ==
    /\ ret.op = "Lookup"
    /\ ret.crit.Matching = <<" ", "A", " ">>
    /\ Len(ret.found) >= 1
    /\ <<"a">> \in SameKey(ret.crit.Matching)

\* What C6 asks of the value a Lookup returned.
C6_Returned ==
    ret.op = "Lookup" =>
        /\ ret.err <=> (ret.crit.Matching = <<>>)
        /\ ret.err => ret.found = <<>>
        /\ (~ret.err /\ Matches(ret.crit) = {}) => ret.found = <<>>

\* C6: Lookup returns an error exactly when the text is the empty string; a
\* text that matches nothing gets an empty list and no error; either way the
\* call leaves the node collection and the index as they were.
C6_ErrorIffEmptyText ==
    /\ []C6_Returned
    /\ [][(ret' # ret /\ ret'.op = "Lookup") => (h' = h /\ byOffset' = byOffset)]_vars

\* A Lookup of a non-empty text that matched nothing in a handle with nodes.
C6_Witness ==
    /\ ret.op = "Lookup"
    /\ ret.crit.Matching = <<" ">>
    /\ ~ret.err /\ ret.found = <<>>
    /\ Len(h.db) >= 1

\* The filter of Iterate admits node k.
Admitted(pos, k) ==
    Len(pos) = 0 \/ \E n \in 1..Len(pos) : pos[n] = byOffset[k].pos

\* The views Iterate is to hand out when it visits the admitted nodes of the
\* sequence order, one after the other.
ViewsIn(order, pos) ==
    LET nodes == SelectSeq(order, LAMBDA k : Admitted(pos, k))
    IN  [i \in 1..Len(nodes) |->
            [word |-> byOffset[nodes[i]].words[1].word, cluster |-> nodes[i]]]

IsPrefix(p, q) == Len(p) <= Len(q) /\ \A i \in 1..Len(p) : p[i] = q[i]

\* C7 as stated: with a visitor that returns no error, Iterate visits each
\* admitted node once, in the order in which the load created the nodes, each
\* time with the node's first member word.
C7_CreationOrder ==
    (it.pc = "done" /\ it.err = "nil") => it.visited = ViewsIn(created, it.pos)

\* C7 as amended: with a visitor that returns no error, Iterate visits each
\* admitted node once and no other node, in the order of the handle's node
\* collection, each time with the node's first member word; that order is
\* fixed in the handle, so a second run visits the same nodes in the same order.
C7_CollectionOrder ==
    it.pc # "idle" =>
        /\ IsPrefix(it.visited, ViewsIn(h.db, it.pos))
        /\ (it.pc = "done" /\ it.err = "nil") =>
              /\ it.visited = ViewsIn(h.db, it.pos)
              /\ ClusterSet(it.visited) = { k \in DOMAIN byOffset : Admitted(it.pos, k) }
              /\ \A i, j \in 1..Len(it.visited) :
                    i # j => it.visited[i].cluster # it.visited[j].cluster

\* A filtered run that finished without error over a collection of two nodes
\* whose order is not the order of creation.
C7_Witness ==
    /\ it.pc = "done" /\ it.err = "nil"
    /\ Len(h.db) = 2 /\ h.db # created
    /\ it.pos = <<Noun>>
    /\ Len(it.visited) = 1

\* What C8 asks of an activation of Iterate.
C8_Returned ==
    LET n == Len(it.rets)
    IN  /\ Len(it.visited) = n
        /\ \A j \in 1..(n - 1) : it.rets[j] = "nil"
        /\ (n > 0 /\ it.rets[n] # "nil") => (it.pc = "done" /\ it.err = it.rets[n])
        /\ (it.pc = "done" /\ (n = 0 \/ it.rets[n] = "nil")) => it.err = "nil"
        /\ it.pc = "running" => (it.i <= Len(h.db) + 1 /\ ENABLED IterateStep)

\* C8: once the visitor has returned an error Iterate calls it no more and
\* returns that error; with a visitor that returns none, every turn of the
\* loop moves on by one node until Iterate returns nil.
C8_StopsAtFirstError ==
    /\ []C8_Returned
    /\ [][(it.pc = "running" /\ it' # it) =>
             \/ it'.pc = "done" /\ Len(it'.visited) <= Len(it.visited) + 1
             \/ it'.pc = "running" /\ it'.i = it.i + 1]_vars
    /\ [][(it.pc = "done" /\ it'.pc = "done") => it' = it]_vars

\* An unfiltered run over two nodes that the visitor stopped at the first.
C8_Witness ==
    /\ it.pc = "done" /\ it.err = "e2"
    /\ it.pos = <<>> /\ Len(h.db) = 2
    /\ Len(it.visited) = 1

\* C9: a load never attaches a syntactic relation outside its node's word
\* list, and an entry with a syntactic pointer whose decoded source index is
\* not below the entry's word count makes New return an error.
C9_SourceInRange ==
    /\ pc # "panic"
    /\ "bogus" \in seen => (pc = "failed" /\ h.nil /\ err # "nil")

\* A handle with a syntactic relation on the second member word of a node.
C9_Witness ==
    /\ pc = "ready"
    /\ \E k \in DOMAIN byOffset :
          /\ Len(byOffset[k].words) = 2
          /\ byOffset[k].words[2].relations # <<>>

\* What C10 asks of the values the queries returned: the same as a call made
\* now, on its own, returns.
C10_AsAlone ==
    /\ ret.op = "Lookup" =>
          ret.found = Lookup(h, byOffset, ret.crit).found
    /\ ret.op = "Related" =>
          ret.relationships = Related(byOffset, ret.w, ret.r).relationships
    /\ it.pc # "idle" => IsPrefix(Clusters(it.visited), Clusters(ViewsIn(h.db, it.pos)))

\* C10: once New has returned a handle no query changes the node collection,
\* the index or a node, so queries that interleave return what they return
\* when run alone.
C10_QueriesReadOnly ==
    /\ [][pc = "ready" =>
             (pc' = "ready" /\ h' = h /\ byOffset' = byOffset /\ created' = created)]_vars
    /\ []C10_AsAlone

\* An Iterate in progress during which a Lookup and a Related were made.
C10_Witness ==
    /\ it.pc = "running" /\ Len(it.visited) >= 1
    /\ ret.op = "Related" /\ ret.from = "Lookup"

\* The text of the member words of a node, in order.
Members(c) == [i \in DOMAIN c.words |-> c.words[i].word]

\* Two nodes with the same part of speech, member words, gloss, semantic
\* relations and, word by word, syntactic relations.
SameNode(c, d) ==
    /\ c.pos = d.pos
    /\ Members(c) = Members(d)
    /\ c.gloss = d.gloss
    /\ c.relations = d.relations
    /\ \A i \in DOMAIN c.words \cap DOMAIN d.words :
           c.words[i].relations = d.words[i].relations

SameGraph(t, u) ==
    /\ DOMAIN t = DOMAIN u
    /\ \A k \in DOMAIN t \cap DOMAIN u : SameNode(t[k], u[k])

BothReturned == loads[1].out # "walk" /\ loads[2].out # "walk"

\* C11: entries with pairwise distinct identity keys, fed to the builder in
\* two orders: both loads succeed or both fail, and when they succeed the two
\* graphs have the same identity keys and, key by key, nodes with the same
\* part of speech, member words, gloss, semantic relations and syntactic
\* relations; a node a pointer created before its entry arrived is no
\* different from one defined first.
C11_OrderIndependent ==
    BothReturned =>
        /\ (loads[1].out = "ready") <=> (loads[2].out = "ready")
        /\ loads[1].out = "ready" => SameGraph(loads[1].tbl, loads[2].tbl)

\* Both orders loaded; the first created a node from a pointer to it and
\* filled it later, the second defined every node before it was pointed at;
\* the graph has a semantic and a syntactic relation.
C11_Witness ==
    /\ BothReturned
    /\ loads[1].out = "ready" /\ loads[2].out = "ready"
    /\ orders[1] # orders[2]
    /\ loads[1].held # {} /\ loads[2].held = {}
    /\ \E k \in DOMAIN loads[1].tbl :
           /\ k \in loads[1].held
           /\ loads[1].tbl[k].pos # Noun
    /\ \E k \in DOMAIN loads[1].tbl : loads[1].tbl[k].relations # <<>>
    /\ \E k \in DOMAIN loads[1].tbl :
           \E i \in DOMAIN loads[1].tbl[k].words :
               loads[1].tbl[k].words[i].relations # <<>>

\* The syntactic relations of the clusters of a heap, with the cluster each
\* of them points at.
SyntacticTargets(heap) ==
    UNION { UNION { { [wordNumber |-> heap[k].words[i].relations[j].wordNumber,
                       target     |-> heap[heap[k].words[i].relations[j].target]] :
                          j \in 1..Len(heap[k].words[i].relations) } :
                    i \in 1..Len(heap[k].words) } :
            k \in DOMAIN heap }

\* C12: in every handle New returns, the target word index of every
\* syntactic relation is less than the number of member words of the node it
\* points at, and so no call of Related, whatever the mask, reads outside the
\* word list of a target node.
C12_TargetWordInRange ==
    /\ pc = "ready" =>
           \A s \in SyntacticTargets(byOffset) : s.wordNumber < Len(s.target.words)
    /\ ret.op = "Related" => ~ret.panic

====
